---- MODULE Spec2Model ----
(***************************************************************************)
(* Model of the authentication / configuration backend:                    *)
(*   - DatabaseManager (src/src/db.ts): the SQLite schema                  *)
(*   - AuthManager     (src/index.ts, lines 194-378)                       *)
(*   - ConfigManager   (src/src/config.ts)                                 *)
(* Text values the code compares or converts (timestamps, digests) are     *)
(* sequences of character codes, so that SQLite's text comparison and the  *)
(* hex encoding are computed rather than assumed.                          *)
(***************************************************************************)
EXTENDS Integers, Sequences, FiniteSets, TLC

VARIABLES
  users,       \* rows of table users
  tokens,      \* rows of table tokens
  config,      \* rows of table config
  seq,         \* sqlite_sequence: last AUTOINCREMENT id handed out per table
  now,         \* the clock (caller and store share it), in ticks
  last,        \* the most recent completed call: [op, args, ret]
  issued,      \* history: [token, username] of successful authenticate calls
  revoked,     \* history: token strings for which revokeToken completed
  registered,  \* history: [username, password, id] of successful createUser calls
  proc,        \* per client process: the call in flight, statement by statement
  schema       \* the tables and indexes of the database (sqlite_master)

vars ==
  <<users, tokens, config, seq, now, last, issued, revoked, registered, proc,
    schema>>

store == <<users, tokens, config, seq>>

-----------------------------------------------------------------------------
(* Bounds of the model *)

\* how many distinct values the token generator can draw
MaxTokens == 2
\* clock ticks per calendar day
TicksPerDay == 2
\* the clock stops at this tick
MaxTime == 2
\* the config table's AUTOINCREMENT counter stops here
MaxConfigId == 3

Usernames == {"alice", "bob"}

\* "password" and "hunter2p" as character codes
Passwords == { <<112, 97, 115, 115, 119, 111, 114, 100>>,
               <<104, 117, 110, 116, 101, 114, 50, 112>> }

\* the values randomBytes(32).toString("hex") can take, abstracted to 1..MaxTokens
TokenValues == 1 .. MaxTokens

\* bearer strings a caller can present: every token value, and 0 for a string
\* such as "invalid-token" that the generator never produces
BearerStrings == 0 .. MaxTokens

Procs == {"p1", "p2"}

-----------------------------------------------------------------------------
(* Text: timestamps, comparison, digests *)

Min(a, b) == IF a < b THEN a ELSE b

\* a two-digit decimal field
Digits2(n) == << 48 + (n \div 10), 48 + (n % 10) >>

\* Date.prototype.toISOString: <date> "T" <time> ".000Z"
toISOString(t) ==
  Digits2(t \div TicksPerDay) \o <<84>> \o Digits2(t % TicksPerDay)
    \o <<46, 48, 48, 48, 90>>

\* SQLite datetime('now') and CURRENT_TIMESTAMP: <date> " " <time>
datetime(t) ==
  Digits2(t \div TicksPerDay) \o <<32>> \o Digits2(t % TicksPerDay)

\* SQLite's comparison of two TEXT values under the BINARY collation (memcmp,
\* then the shorter one first): a > b
TextGreater(a, b) ==
  \/ \E i \in 1 .. Min(Len(a), Len(b)) :
        /\ a[i] > b[i]
        /\ \A j \in 1 .. (i - 1) : a[j] = b[j]
  \/ /\ Len(a) > Len(b)
     /\ \A j \in 1 .. Len(b) : a[j] = b[j]

\* one lowercase hex digit
HexChar(n) == IF n < 10 THEN 48 + n ELSE 87 + n

HexVal(c) == IF c < 58 THEN c - 48 ELSE c - 87

RECURSIVE DigestFold(_, _)
DigestFold(s, h) ==
  IF s = <<>> THEN h ELSE DigestFold(Tail(s), (h * 31 + Head(s)) % 256)

\* hashPassword with a salt drawn from the clock and not stored with the row
hashPasswordSalted(password) ==
  LET d == DigestFold(password, 7 + now)
  IN  << HexChar(d \div 16), HexChar(d % 16) >>

\* createHash("sha256").update(password).digest("hex"): the digest is cut down
\* to one byte, rendered as two hex digits
hashPassword(password) ==
  LET d == DigestFold(password, 7)
  IN  << HexChar(d \div 16), HexChar(d % 16) >>

\* Buffer.from(hex, "hex")
BufferFromHex(s) ==
  [ i \in 1 .. (Len(s) \div 2) |-> 16 * HexVal(s[2 * i - 1]) + HexVal(s[2 * i]) ]

\* crypto.timingSafeEqual on two buffers of equal length
timingSafeEqual(a, b) == \A i \in 1 .. Len(a) : a[i] = b[i]

-----------------------------------------------------------------------------
(* Results *)

Null == [kind |-> "null"]
Void == [kind |-> "void"]
IdResult(id) == [kind |-> "id", id |-> id]
TokenResult(t) == [kind |-> "token", token |-> t]
UserResult(u) == [kind |-> "user", user |-> u]
ErrorResult(m) == [kind |-> "error", message |-> m]

Idle == [pc |-> "idle"]

-----------------------------------------------------------------------------
(* DatabaseManager: the schema's constraints, statement by statement *)

\* the statements of #migrate, in order: what is created, under which name,
\* on which table
statements ==
  << [create |-> "table", name |-> "users", tbl_name |-> "users"],
     [create |-> "table", name |-> "tokens", tbl_name |-> "tokens"],
     [create |-> "table", name |-> "config", tbl_name |-> "config"],
     [create |-> "index", name |-> "idx_config_env", tbl_name |-> "config"],
     [create |-> "index", name |-> "idx_config_key_env", tbl_name |-> "config"] >>

\* a database file before anything is created in it
EmptyDatabase ==
  [schema |-> {}, users |-> {}, tokens |-> {}, config |-> {}, error |-> ""]

\* the database as the state holds it
Database ==
  [ schema |-> schema, users |-> users, tokens |-> tokens, config |-> config,
    error |-> "" ]

\* the schema with one more table or index
Created(db, sql) ==
  [db EXCEPT !.schema = @ \cup
     { [type |-> sql.create, name |-> sql.name, tbl_name |-> sql.tbl_name] }]

\* db.run of a CREATE TABLE / CREATE INDEX without IF NOT EXISTS
runCreate(db, sql) ==
  IF db.error # "" THEN db
  ELSE IF \E o \in db.schema : o.name = sql.name
  THEN [db EXCEPT !.error = sql.create \o " " \o sql.name \o " already exists"]
  ELSE Created(db, sql)

\* db.run of a CREATE TABLE IF NOT EXISTS / CREATE INDEX IF NOT EXISTS
\* statement; a statement after a thrown error is not run
run(db, sql) ==
  IF db.error # "" THEN db
  ELSE IF \E o \in db.schema : o.name = sql.name THEN db
  ELSE IF sql.create = "index"
          /\ ~ \E o \in db.schema : o.type = "table" /\ o.name = sql.tbl_name
  THEN [db EXCEPT !.error = "no such table: main." \o sql.tbl_name]
  ELSE Created(db, sql)

\* for (const sql of statements) this.db.run(sql), from statement i on
RECURSIVE runFrom(_, _)
runFrom(db, i) ==
  IF i > Len(statements) THEN db ELSE runFrom(run(db, statements[i]), i + 1)

\* #migrate on database db
migrate(db) == runFrom(db, 1)

\* users.id INTEGER PRIMARY KEY AUTOINCREMENT, tokens.id likewise
NextId(table) == seq[table] + 1

\* InsertUser on a users table declared without UNIQUE on username
InsertUserNoUnique(username, passwordHash) ==
  [ ok |-> TRUE, constraint |-> "", lastInsertRowid |-> NextId("users"),
    users |-> users \cup
              { [ id |-> NextId("users"), username |-> username,
                  password_hash |-> passwordHash,
                  created_at |-> datetime(now) ] },
    seq |-> [seq EXCEPT !["users"] = NextId("users")] ]

\* InsertUser as INSERT OR REPLACE: a row of the same username is replaced
InsertUserOrReplace(username, passwordHash) ==
  [ ok |-> TRUE, constraint |-> "", lastInsertRowid |-> NextId("users"),
    users |-> { r \in users : r.username # username } \cup
              { [ id |-> NextId("users"), username |-> username,
                  password_hash |-> passwordHash,
                  created_at |-> datetime(now) ] },
    seq |-> [seq EXCEPT !["users"] = NextId("users")] ]

\* INSERT INTO users (username, password_hash) VALUES (?, ?)
\* username TEXT UNIQUE NOT NULL; created_at DEFAULT CURRENT_TIMESTAMP.
\* A statement that fails leaves the table and sqlite_sequence as they were.
InsertUser(username, passwordHash) ==
  IF \E r \in users : r.username = username
  THEN [ ok |-> FALSE, constraint |-> "UNIQUE", lastInsertRowid |-> 0,
         users |-> users, seq |-> seq ]
  ELSE [ ok |-> TRUE, constraint |-> "", lastInsertRowid |-> NextId("users"),
         users |-> users \cup
                   { [ id |-> NextId("users"), username |-> username,
                       password_hash |-> passwordHash,
                       created_at |-> datetime(now) ] },
         seq |-> [seq EXCEPT !["users"] = NextId("users")] ]

\* INSERT INTO tokens (user_id, token, expires_at) VALUES (?, ?, ?)
\* token TEXT UNIQUE NOT NULL; created_at DEFAULT CURRENT_TIMESTAMP.
InsertToken(userId, token, expiresAt) ==
  IF \E r \in tokens : r.token = token
  THEN [ ok |-> FALSE, constraint |-> "UNIQUE", tokens |-> tokens, seq |-> seq ]
  ELSE [ ok |-> TRUE, constraint |-> "",
         tokens |-> tokens \cup
                    { [ id |-> NextId("tokens"), user_id |-> userId,
                        token |-> token, expires_at |-> expiresAt,
                        created_at |-> datetime(now) ] },
         seq |-> [seq EXCEPT !["tokens"] = NextId("tokens")] ]

-----------------------------------------------------------------------------
(* AuthManager *)

\* #tokenExpiryHours
tokenExpiryHours == 24

\* expiresAt.setHours(expiresAt.getHours() + this.#tokenExpiryHours), in ticks
ExpiryTicks == (tokenExpiryHours * TicksPerDay) \div 24

\* #generateToken: randomBytes(32).toString("hex"). 256 random bits are taken
\* never to repeat. The values are opaque and only ever compared for equality,
\* so they are named by the order of drawing, the first draw being MaxTokens:
\* the set of values the next draw can return.
generateToken ==
  LET fresh == TokenValues \ { i.token : i \in issued }
  IN  { t \in fresh : \A x \in fresh : x <= t }

\* createUser from its try block on, the hash being computed:
\* the INSERT, and the catch that renames a UNIQUE failure. [ret, users, seq]
createUserInsert(username, passwordHash) ==
  LET result == InsertUser(username, passwordHash)
  IN  IF result.ok
      THEN [ ret |-> IdResult(result.lastInsertRowid),
             users |-> result.users, seq |-> result.seq ]
      ELSE [ ret |-> ErrorResult("Username already exists"),
             users |-> result.users, seq |-> result.seq ]

\* createUser with the password stored as it was given
createUserPlaintext(username, password) ==
  createUserInsert(username, password)

\* createUser(username, password): [ret, users, seq]
createUser(username, password) ==
  createUserInsert(username, hashPassword(password))

\* verifyCredentials without the comparison of the hashes
verifyCredentialsNoCompare(username, password) ==
  LET found == { r \in users : r.username = username }
  IN  IF found = {} THEN Null ELSE UserResult(CHOOSE r \in found : TRUE)

\* authenticate, up to the comparison of the hashes: the users row when the
\* credentials match, Null otherwise
verifyCredentials(username, password) ==
  LET passwordHash == hashPassword(password)
      found == { r \in users : r.username = username }
  IN  IF found = {} THEN Null
      ELSE LET user == CHOOSE r \in found : TRUE
               storedHash == BufferFromHex(user.password_hash)
               providedHash == BufferFromHex(passwordHash)
           IN  IF Len(storedHash) # Len(providedHash) THEN Null
               ELSE IF ~ timingSafeEqual(storedHash, providedHash) THEN Null
               ELSE UserResult(user)

\* the work timingSafeEqual(a, b) does: one step per byte of a, whatever the
\* bytes are
timingSafeEqualWork(a, b) == [i \in 1 .. Len(a) |-> "compare byte"]

\* the operations one call of authenticate(username, password) executes, in
\* order, up to its return
authenticateWork(username, password) ==
  LET passwordHash == hashPassword(password)
      found == { r \in users : r.username = username }
  IN  <<"hashPassword", "SELECT users">> \o
      IF found = {} THEN <<"return null">>
      ELSE LET user == CHOOSE r \in found : TRUE
               storedHash == BufferFromHex(user.password_hash)
               providedHash == BufferFromHex(passwordHash)
           IN  <<"Buffer.from", "Buffer.from", "compare lengths">> \o
               IF Len(storedHash) # Len(providedHash) THEN <<"return null">>
               ELSE timingSafeEqualWork(storedHash, providedHash) \o
                    IF ~ timingSafeEqual(storedHash, providedHash)
                    THEN <<"return null">>
                    ELSE << "generateToken", "new Date", "INSERT tokens",
                            "return token" >>

\* issueToken with the lifetime left out: expires_at is the time of issue
issueTokenExpiresNow(user, token) ==
  LET result == InsertToken(user.id, token, toISOString(now))
  IN  IF result.ok
      THEN [ ret |-> TokenResult(token),
             tokens |-> result.tokens, seq |-> result.seq ]
      ELSE [ ret |-> ErrorResult("UNIQUE constraint failed: tokens.token"),
             tokens |-> result.tokens, seq |-> result.seq ]

\* authenticate, from the generation of the token on: [ret, tokens, seq]
issueToken(user, token) ==
  LET expiresAt == now + ExpiryTicks
      result == InsertToken(user.id, token, toISOString(expiresAt))
  IN  IF result.ok
      THEN [ ret |-> TokenResult(token),
             tokens |-> result.tokens, seq |-> result.seq ]
      ELSE [ ret |-> ErrorResult("UNIQUE constraint failed: tokens.token"),
             tokens |-> result.tokens, seq |-> result.seq ]

\* authenticate handing back the session the user already holds, if any
authenticateReuse(username, password, token) ==
  LET v == verifyCredentials(username, password)
      held == IF v.kind = "null" THEN {}
              ELSE { r \in tokens : r.user_id = v.user.id }
  IN  IF v.kind = "null"
      THEN [ ret |-> Null, tokens |-> tokens, seq |-> seq ]
      ELSE IF held # {}
      THEN [ ret |-> TokenResult((CHOOSE r \in held : TRUE).token),
             tokens |-> tokens, seq |-> seq ]
      ELSE issueToken(v.user, token)

\* authenticate(username, password), token being what #generateToken draws
authenticate(username, password, token) ==
  LET v == verifyCredentials(username, password)
  IN  IF v.kind = "null"
      THEN [ ret |-> Null, tokens |-> tokens, seq |-> seq ]
      ELSE issueToken(v.user, token)

\* JoinRow with the first column of a repeated name kept: id and created_at
\* are then those of the tokens row
JoinRowFirstWins(t, u) ==
  [ id |-> t.id, user_id |-> t.user_id, token |-> t.token,
    expires_at |-> t.expires_at, created_at |-> t.created_at,
    username |-> u.username, password_hash |-> u.password_hash ]

\* the object bun:sqlite builds for a row of SELECT t.*, u.*: one property per
\* column name, a later column replacing an earlier one of the same name
JoinRow(t, u) ==
  [ id |-> u.id, user_id |-> t.user_id, token |-> t.token,
    expires_at |-> t.expires_at, created_at |-> u.created_at,
    username |-> u.username, password_hash |-> u.password_hash ]

\* ValidRows with the bearer string matched against the wrong column (t.id)
ValidRowsById(token) ==
  { JoinRow(x[1], x[2]) : x \in
      { x \in tokens \X users :
          /\ x[1].user_id = x[2].id
          /\ x[1].id = token
          /\ TextGreater(x[1].expires_at, datetime(now)) } }

\* ... FROM tokens t JOIN users u ON t.user_id = u.id
\*     WHERE t.token = ? AND t.expires_at > datetime("now")
ValidRows(token) ==
  { JoinRow(t, u) : <<t, u>> \in
      { x \in tokens \X users :
          /\ x[1].user_id = x[2].id
          /\ x[1].token = token
          /\ TextGreater(x[1].expires_at, datetime(now)) } }

\* validateToken(token): the returned User, or Null
validateToken(token) ==
  LET rows == ValidRows(token)
  IN  IF rows = {} THEN Null
      ELSE LET tokenRecord == CHOOSE r \in rows : TRUE
           IN  UserResult([ id |-> tokenRecord.id,
                            username |-> tokenRecord.username,
                            password_hash |-> tokenRecord.password_hash,
                            created_at |-> tokenRecord.created_at ])

\* validateToken with sliding expiration: a valid token's expires_at is renewed
validateTokenSliding(token) ==
  { IF r.token = token /\ TextGreater(r.expires_at, datetime(now))
    THEN [r EXCEPT !.expires_at = toISOString(now + ExpiryTicks)]
    ELSE r : r \in tokens }

\* what validateToken writes to table tokens: its one statement is a SELECT
validateTokenWrites(token) == tokens

\* revokeToken with the row looked up by the wrong column:
\* DELETE FROM tokens WHERE id = ?
revokeTokenById(token) == { r \in tokens : r.id # token }

\* revokeToken that ends every session of the token's user:
\* DELETE FROM tokens WHERE user_id IN
\*   (SELECT user_id FROM tokens WHERE token = ?)
revokeTokenOfUser(token) ==
  { r \in tokens : \A t \in tokens : t.token = token => t.user_id # r.user_id }

\* revokeToken with the comparison inverted:
\* DELETE FROM tokens WHERE token != ?
revokeTokenInverted(token) == { r \in tokens : r.token = token }

\* revokeToken(token): DELETE FROM tokens WHERE token = ?
revokeToken(token) == { r \in tokens : r.token # token }

\* getUserById(id): SELECT * FROM users WHERE id = ?
getUserById(id) ==
  LET found == { r \in users : r.id = id }
  IN  IF found = {} THEN Null ELSE UserResult(CHOOSE r \in found : TRUE)

-----------------------------------------------------------------------------------------------------------------------------------------------------
(* ConfigManager *)

\* type Environment = "development" | "staging" | "production"
Environment == {"development", "staging", "production"}

\* private defaultEnvironment: Environment = "production"
defaultEnvironment == "production"

\* EnvOrDefault without the default: the argument as it was given
EnvAsGiven(environment) == environment


\* environment || this.defaultEnvironment: an omitted environment is ""
EnvOrDefault(environment) ==
  IF environment = "" THEN defaultEnvironment ELSE environment

\* SelectConfig without the environment: SELECT * FROM config WHERE key = ?
SelectConfigAnyEnvironment(key, env) == { r \in config : r.key = key }

\* SELECT * FROM config WHERE key = ? AND environment = ?
SelectConfig(key, env) == { r \in config : r.key = key /\ r.environment = env }

\* UpdateConfig that stamps created_at as well:
\* UPDATE config SET value = ?, created_at = ?, updated_at = ? WHERE id = ?
UpdateConfigTouchCreated(value, updatedAt, id) ==
  { IF r.id = id
    THEN [r EXCEPT !.value = value, !.created_at = updatedAt,
                   !.updated_at = updatedAt]
    ELSE r : r \in config }

\* UPDATE config SET value = ?, updated_at = ? WHERE id = ?
UpdateConfig(value, updatedAt, id) ==
  { IF r.id = id THEN [r EXCEPT !.value = value, !.updated_at = updatedAt] ELSE r :
      r \in config }

\* InsertConfig on a table without UNIQUE(key, environment)
InsertConfigNoUnique(key, value, env, createdAt, updatedAt) ==
  [ ok |-> TRUE, constraint |-> "", lastInsertRowid |-> NextId("config"),
    config |-> config \cup
               { [ id |-> NextId("config"), key |-> key, value |-> value,
                   environment |-> env, created_at |-> createdAt,
                   updated_at |-> updatedAt ] },
    seq |-> [seq EXCEPT !["config"] = NextId("config")] ]

\* InsertConfig as INSERT OR IGNORE: a conflicting row is silently skipped
InsertConfigOrIgnore(key, value, env, createdAt, updatedAt) ==
  IF SelectConfig(key, env) # {}
  THEN [ ok |-> TRUE, constraint |-> "", lastInsertRowid |-> seq["config"],
         config |-> config, seq |-> seq ]
  ELSE InsertConfigNoUnique(key, value, env, createdAt, updatedAt)

\* INSERT INTO config (key, value, environment, created_at, updated_at)
\* VALUES (?, ?, ?, ?, ?), under UNIQUE(key, environment)
InsertConfig(key, value, env, createdAt, updatedAt) ==
  IF SelectConfig(key, env) # {}
  THEN [ ok |-> FALSE, constraint |-> "UNIQUE", lastInsertRowid |-> 0,
         config |-> config, seq |-> seq ]
  ELSE [ ok |-> TRUE, constraint |-> "", lastInsertRowid |-> NextId("config"),
         config |-> config \cup
                    { [ id |-> NextId("config"), key |-> key, value |-> value,
                        environment |-> env, created_at |-> createdAt,
                        updated_at |-> updatedAt ] },
         seq |-> [seq EXCEPT !["config"] = NextId("config")] ]

\* set from its branch on the selected row on: the UPDATE or the INSERT, and
\* the entry returned. found is what the SELECT returned, nowIso what
\* new Date().toISOString() gave at entry. [ret, config, seq]
setWrite(found, key, value, env, nowIso) ==
  IF found # {}
  THEN LET existing == CHOOSE r \in found : TRUE
       IN  [ ret |-> [ kind |-> "entry",
                       entry |-> [existing EXCEPT !.value = value,
                                                  !.updated_at = nowIso] ],
             config |-> UpdateConfig(value, nowIso, existing.id),
             seq |-> seq ]
  ELSE LET result == InsertConfig(key, value, env, nowIso, nowIso)
       IN  IF result.ok
           THEN [ ret |-> [ kind |-> "entry",
                            entry |-> [ id |-> result.lastInsertRowid, key |-> key,
                                        value |-> value, environment |-> env,
                                        created_at |-> nowIso,
                                        updated_at |-> nowIso ] ],
                  config |-> result.config,
                  seq |-> result.seq ]
           ELSE [ ret |-> ErrorResult(
                    "UNIQUE constraint failed: config.key, config.environment"),
                  config |-> result.config,
                  seq |-> result.seq ]

\* set(key, value, environment), run to completion: [ret, config, seq]
set(key, value, environment) ==
  LET env == EnvOrDefault(environment)
  IN  setWrite(SelectConfig(key, env), key, value, env, toISOString(now))

\* get that returns entry.value || null: an empty value reads as absent
getValueOrNull(key, environment) ==
  LET found == SelectConfig(key, EnvOrDefault(environment))
  IN  IF found = {} \/ (CHOOSE r \in found : TRUE).value = "" THEN Null
      ELSE [kind |-> "string", value |-> (CHOOSE r \in found : TRUE).value]

\* get(key, environment): SELECT value FROM config WHERE key = ? AND
\* environment = ?; the value, or null
get(key, environment) ==
  LET found == SelectConfig(key, EnvOrDefault(environment))
  IN  IF found = {} THEN Null
      ELSE [kind |-> "string", value |-> (CHOOSE r \in found : TRUE).value]

\* exists(key, environment): SELECT COUNT(*) ... ; count > 0
exists(key, environment) ==
  LET count == Cardinality(SelectConfig(key, EnvOrDefault(environment)))
  IN  [kind |-> "bool", value |-> (count > 0)]

\* ORDER BY key: the rows of S as a sequence, least key first
RECURSIVE OrderByKey(_)
OrderByKey(S) ==
  IF S = {} THEN <<>>
  ELSE LET first == CHOOSE r \in S : \A x \in S : ~ TextGreater(r.key, x.key)
       IN  <<first>> \o OrderByKey(S \ {first})

\* ORDER BY id
RECURSIVE OrderById(_)
OrderById(S) ==
  IF S = {} THEN <<>>
  ELSE LET first == CHOOSE r \in S : \A x \in S : r.id <= x.id
       IN  <<first>> \o OrderById(S \ {first})

\* getAll with the rows in the order of their insertion
getAllById(environment) ==
  OrderById({ r \in config : r.environment = EnvOrDefault(environment) })

\* getAll(environment): SELECT * FROM config WHERE environment = ? ORDER BY key
getAll(environment) ==
  OrderByKey({ r \in config : r.environment = EnvOrDefault(environment) })

\* SQLite folds the ASCII letters A-Z to a-z when LIKE compares characters
Fold(c) == IF c \in 65 .. 90 THEN c + 32 ELSE c

\* text LIKE pattern, as SQLite evaluates it: % (37) matches any run of
\* characters, _ (95) any one character, any other character itself up to
\* the case of ASCII letters
RECURSIVE Like(_, _)
Like(pattern, text) ==
  IF pattern = <<>> THEN text = <<>>
  ELSE IF Head(pattern) = 37
  THEN \/ Like(Tail(pattern), text)
       \/ text # <<>> /\ Like(pattern, Tail(text))
  ELSE IF text = <<>> THEN FALSE
  ELSE IF Head(pattern) = 95 THEN Like(Tail(pattern), Tail(text))
  ELSE Fold(Head(pattern)) = Fold(Head(text)) /\ Like(Tail(pattern), Tail(text))

\* getByPattern that anchors the pattern at the start of the key
getByPatternPrefix(pattern, environment) ==
  OrderByKey({ r \in config : /\ Like(pattern \o <<37>>, r.key)
                              /\ r.environment = EnvOrDefault(environment) })

\* getByPattern(pattern, environment): SELECT * FROM config WHERE key LIKE ?
\* AND environment = ? ORDER BY key, the parameter being `%${pattern}%`
getByPattern(pattern, environment) ==
  OrderByKey({ r \in config : /\ Like(<<37>> \o pattern \o <<37>>, r.key)
                              /\ r.environment = EnvOrDefault(environment) })

\* delete that answers result.changes >= 0
deleteAlwaysTrue(key, environment) ==
  [ ret |-> [kind |-> "bool", value |-> TRUE],
    config |-> config \ SelectConfig(key, EnvOrDefault(environment)) ]

\* delete(key, environment): [ret, config]
\* DELETE FROM config WHERE key = ? AND environment = ?; result.changes > 0
delete(key, environment) ==
  LET env == EnvOrDefault(environment)
      changes == Cardinality(SelectConfig(key, env))
  IN  [ ret |-> [kind |-> "bool", value |-> (changes > 0)],
        config |-> config \ SelectConfig(key, env) ]

-----------------------------------------------------------------------------
(* The HTTP API: index.ts *)

\* the request carries no bearer token
NoBearer == -1

\* the JavaScript value undefined, for a body field that is left out
undefined == "undefined"

Response(status, body) == [status |-> status, body |-> body]

\* requireAuth that only checks that a token was sent
requireAuthPresence(bearer) ==
  IF bearer = NoBearer THEN ErrorResult("Missing authorization token")
  ELSE UserResult([id |-> 0])

\* requireAuth(bearer): the user, or the Error it throws
requireAuth(bearer) ==
  IF bearer = NoBearer THEN ErrorResult("Missing authorization token")
  ELSE LET user == validateToken(bearer)
       IN  IF user.kind = "null" THEN ErrorResult("Invalid or expired token")
           ELSE user

\* onError, for an Error thrown by a handler
onError(error) ==
  IF error.message \in {"Missing authorization token", "Invalid or expired token"}
  THEN Response(401, [error |-> error.message])
  ELSE Response(500, [error |-> error.message])

\* POST /auth/register without the check of the password's length
postRegisterAnyLength(username, password) ==
  IF username = "" \/ password = <<>>
  THEN [ response |-> Response(400, [error |-> "Username and password required"]),
         users |-> users, seq |-> seq ]
  ELSE LET r == createUser(username, password)
       IN  IF r.ret.kind = "error"
           THEN [ response |-> Response(400, [error |-> r.ret.message]),
                  users |-> r.users, seq |-> r.seq ]
           ELSE [ response |->
                    Response(200, [id |-> r.ret.id, username |-> username]),
                  users |-> r.users, seq |-> r.seq ]

\* POST /auth/register: [response, users, seq]
postRegister(username, password) ==
  IF username = "" \/ password = <<>>
  THEN [ response |-> Response(400, [error |-> "Username and password required"]),
         users |-> users, seq |-> seq ]
  ELSE IF Len(password) < 8
  THEN [ response |->
           Response(400, [error |-> "Password must be at least 8 characters"]),
         users |-> users, seq |-> seq ]
  ELSE LET r == createUser(username, password)
       IN  IF r.ret.kind = "error"
           THEN [ response |-> Response(400, [error |-> r.ret.message]),
                  users |-> r.users, seq |-> r.seq ]
           ELSE [ response |->
                    Response(200, [id |-> r.ret.id, username |-> username]),
                  users |-> r.users, seq |-> r.seq ]

\* POST /auth/login, token being the string #generateToken draws:
\* [response, tokens, seq]
postLogin(username, password, token) ==
  IF username = "" \/ password = <<>>
  THEN [ response |-> Response(400, [error |-> "Username and password required"]),
         tokens |-> tokens, seq |-> seq ]
  ELSE LET r == authenticate(username, password, token)
       IN  IF r.ret.kind = "error"
           THEN [response |-> onError(r.ret), tokens |-> r.tokens, seq |-> r.seq]
           ELSE IF r.ret.kind = "null"
           THEN [ response |-> Response(401, [error |-> "Invalid credentials"]),
                  tokens |-> r.tokens, seq |-> r.seq ]
           ELSE [ response |-> Response(200, [token |-> r.ret.token]),
                  tokens |-> r.tokens, seq |-> r.seq ]

\* POST /auth/logout: [response, tokens]
postLogout(bearer) ==
  [ response |-> Response(200, [message |-> "Logged out"]),
    tokens |-> IF bearer # NoBearer THEN revokeToken(bearer) ELSE tokens ]

\* POST /config: [response, config, seq]
postConfig(bearer, key, value, environment) ==
  LET auth == requireAuth(bearer)
  IN  IF auth.kind = "error"
      THEN [response |-> onError(auth), config |-> config, seq |-> seq]
      ELSE IF key = <<>> \/ value = undefined
      THEN [ response |-> Response(400, [error |-> "Key and value required"]),
             config |-> config, seq |-> seq ]
      ELSE LET r == set(key, value, environment)
           IN  [ response |-> Response(200, r.ret.entry),
                 config |-> r.config, seq |-> r.seq ]

\* PUT /config/:key: [response, config, seq]
putConfig(bearer, key, value, environment) ==
  LET auth == requireAuth(bearer)
  IN  IF auth.kind = "error"
      THEN [response |-> onError(auth), config |-> config, seq |-> seq]
      ELSE IF value = undefined
      THEN [ response |-> Response(400, [error |-> "Value required"]),
             config |-> config, seq |-> seq ]
      ELSE LET r == set(key, value, environment)
           IN  [ response |-> Response(200, r.ret.entry),
                 config |-> r.config, seq |-> r.seq ]

\* DELETE /config/:key: [response, config]
deleteConfig(bearer, key, environment) ==
  LET auth == requireAuth(bearer)
      env == EnvOrDefault(environment)
  IN  IF auth.kind = "error"
      THEN [response |-> onError(auth), config |-> config]
      ELSE LET r == delete(key, env)
           IN  IF ~ r.ret.value
               THEN [ response |-> Response(404, [error |-> "Config key not found"]),
                      config |-> r.config ]
               ELSE [ response |->
                        Response(200, [ message |-> "Config deleted", key |-> key,
                                        environment |-> env ]),
                      config |-> r.config ]

-----------------------------------------------------------------------------
(* The program as one client sees it: every method call runs to completion *)

Init ==
  /\ users = {}
  /\ tokens = {}
  /\ config = {}
  /\ seq = [t \in {"users", "tokens", "config"} |-> 0]
  /\ now = 0
  /\ last = [op |-> "init", args |-> <<>>, ret |-> Void]
  /\ issued = {}
  /\ revoked = {}
  /\ registered = {}
  /\ proc = [p \in Procs |-> Idle]
  /\ schema = migrate(EmptyDatabase).schema

CreateUserIn(U, P) ==
  \E u \in U, p \in P :
    LET r == createUser(u, p)
    IN  /\ users' = r.users
        /\ seq' = r.seq
        /\ last' = [ op |-> "createUser",
                     args |-> [username |-> u, password |-> p], ret |-> r.ret ]
        /\ registered' =
             IF r.ret.kind = "id"
             THEN registered \cup
                    { [username |-> u, password |-> p, id |-> r.ret.id] }
             ELSE registered
        /\ UNCHANGED <<tokens, config, now, issued, revoked, proc,
                 schema>>

CreateUser == CreateUserIn(Usernames, Passwords)

AuthenticateIn(U, P) ==
  \E u \in U, p \in P :
    \* the token is drawn only once the credentials have matched
    \E tok \in (IF verifyCredentials(u, p).kind = "null" THEN {0} ELSE generateToken) :
      LET r == authenticate(u, p, tok)
      IN  /\ tokens' = r.tokens
          /\ seq' = r.seq
          /\ last' = [ op |-> "authenticate",
                       args |-> [username |-> u, password |-> p], ret |-> r.ret ]
          /\ issued' = IF r.ret.kind = "token"
                       THEN issued \cup { [token |-> r.ret.token, username |-> u] }
                       ELSE issued
          /\ UNCHANGED <<users, config, now, revoked, registered, proc,
                 schema>>

Authenticate == AuthenticateIn(Usernames, Passwords)

ValidateToken ==
  \E s \in BearerStrings :
    /\ last' = [ op |-> "validateToken", args |-> [token |-> s],
                 ret |-> validateToken(s) ]
    /\ tokens' = validateTokenWrites(s)
    /\ UNCHANGED <<users, config, seq, now, issued, revoked, registered, proc,
                 schema>>

RevokeToken ==
  \E s \in BearerStrings :
    /\ tokens' = revokeToken(s)
    /\ revoked' = IF s \in { i.token : i \in issued } THEN revoked \cup {s} ELSE revoked
    /\ last' = [op |-> "revokeToken", args |-> [token |-> s], ret |-> Void]
    /\ UNCHANGED <<users, config, seq, now, issued, registered, proc,
                 schema>>

GetUserById ==
  \E id \in 1 .. (Cardinality(Usernames) + 1) :
    /\ last' = [op |-> "getUserById", args |-> [id |-> id], ret |-> getUserById(id)]
    /\ UNCHANGED <<users, tokens, config, seq, now, issued, revoked, registered, proc,
                 schema>>

\* time passes between calls
Tick ==
  /\ now < MaxTime
  /\ now' = now + 1
  /\ last' = [op |-> "tick", args |-> <<>>, ret |-> Void]
  /\ UNCHANGED <<users, tokens, config, seq, issued, revoked, registered, proc,
                 schema>>

Next ==
  \/ CreateUser
  \/ Authenticate
  \/ ValidateToken
  \/ RevokeToken
  \/ GetUserById
  \/ Tick

Spec == Init /\ [][Next]_vars

-----------------------------------------------------------------------------
(* One client, the configuration store included *)

\* keys are text, as sequences of character codes: "f.x"
ConfigKeys == { <<102, 46, 120>> }
ConfigValues == {"on", "off"}
Environments == {"production"}

ConfigSetIn(K, V, E) ==
  \E k \in K, v \in V, env \in E :
    LET r == set(k, v, env)
    IN  /\ r.seq["config"] <= MaxConfigId
        /\ config' = r.config
        /\ seq' = r.seq
        /\ last' = [ op |-> "set",
                     args |-> [key |-> k, value |-> v, environment |-> env],
                     ret |-> r.ret ]
        /\ UNCHANGED <<users, tokens, now, issued, revoked, registered, proc,
                 schema>>

ConfigDeleteIn(K, E) ==
  \E k \in K, env \in E :
    LET r == delete(k, env)
    IN  /\ config' = r.config
        /\ last' = [ op |-> "delete", args |-> [key |-> k, environment |-> env],
                     ret |-> r.ret ]
        /\ UNCHANGED <<users, tokens, seq, now, issued, revoked, registered, proc,
                 schema>>

\* one user, whose sessions and the configuration change side by side
NextStore ==
  \/ CreateUserIn({"alice"}, Passwords)
  \/ AuthenticateIn({"alice"}, Passwords)
  \/ ValidateToken
  \/ RevokeToken
  \/ GetUserById
  \/ Tick
  \/ ConfigSetIn(ConfigKeys, ConfigValues, Environments)
  \/ ConfigDeleteIn(ConfigKeys, Environments)

SpecStore == Init /\ [][NextStore]_vars

-----------------------------------------------------------------------------
(* The store opened again while it is in use *)

\* new DatabaseManager(path) over the database that exists: #migrate runs
Migrate ==
  LET db == migrate(Database)
  IN  /\ schema' = db.schema
      /\ users' = db.users
      /\ tokens' = db.tokens
      /\ config' = db.config
      /\ last' = [ op |-> "migrate", args |-> <<>>,
                   ret |-> IF db.error = "" THEN Void ELSE ErrorResult(db.error) ]
      /\ UNCHANGED <<seq, now, issued, revoked, registered, proc>>

NextMigrate ==
  \/ CreateUserIn({"alice"}, Passwords)
  \/ AuthenticateIn({"alice"}, Passwords)
  \/ RevokeToken
  \/ ConfigSetIn(ConfigKeys, ConfigValues, Environments)
  \/ ConfigDeleteIn(ConfigKeys, Environments)
  \/ Migrate

SpecMigrate == Init /\ [][NextMigrate]_vars

-----------------------------------------------------------------------------
(* One client of the ConfigManager, over several keys and environments *)

ScopedEnvironments == {"development", "production"}

\* the keys "ab" and "Bc"
SearchKeys == { <<97, 98>>, <<66, 99>> }

\* the values stored: "on" and the empty string
SearchValues == {"on", ""}

\* the environment argument of a call: "" is the argument left out
EnvironmentArgs == ScopedEnvironments \cup {""}

\* the patterns "b", "c", "a_" and "%c"
Patterns == { <<98>>, <<99>>, <<97, 95>>, <<37, 99>> }

ConfigGet ==
  \E k \in SearchKeys, env \in EnvironmentArgs :
    /\ last' = [ op |-> "get", args |-> [key |-> k, environment |-> env],
                 ret |-> get(k, env) ]
    /\ UNCHANGED <<users, tokens, config, seq, now, issued, revoked, registered, proc,
                 schema>>

ConfigExists ==
  \E k \in SearchKeys, env \in EnvironmentArgs :
    /\ last' = [ op |-> "exists", args |-> [key |-> k, environment |-> env],
                 ret |-> exists(k, env) ]
    /\ UNCHANGED <<users, tokens, config, seq, now, issued, revoked, registered, proc,
                 schema>>

ConfigGetAll ==
  \E env \in EnvironmentArgs :
    /\ last' = [ op |-> "getAll", args |-> [environment |-> env],
                 ret |-> [kind |-> "entries", entries |-> getAll(env)] ]
    /\ UNCHANGED <<users, tokens, config, seq, now, issued, revoked, registered, proc,
                 schema>>

ConfigGetByPattern ==
  \E pattern \in Patterns, env \in EnvironmentArgs :
    /\ last' = [ op |-> "getByPattern",
                 args |-> [pattern |-> pattern, environment |-> env],
                 ret |-> [ kind |-> "entries",
                           entries |-> getByPattern(pattern, env) ] ]
    /\ UNCHANGED <<users, tokens, config, seq, now, issued, revoked, registered, proc,
                 schema>>

NextConfig ==
  \/ ConfigSetIn(SearchKeys, SearchValues, EnvironmentArgs)
  \/ ConfigDeleteIn(SearchKeys, EnvironmentArgs)
  \/ ConfigGet
  \/ ConfigExists
  \/ ConfigGetAll
  \/ ConfigGetByPattern

SpecConfig == Init /\ [][NextConfig]_vars

-----------------------------------------------------------------------------
(* Several clients on the shared store, one SQL statement at a time *)

\* createUser is entered: the hash is computed, the INSERT is still to run.
\* absent records whether the username was free when the call began.
CallCreateUser(p) ==
  /\ proc[p].pc \in {"idle", "done"}
  /\ \E u \in Usernames, pw \in Passwords :
       proc' = [proc EXCEPT ![p] =
                  [ pc |-> "createUser:insert", username |-> u,
                    passwordHash |-> hashPassword(pw),
                    absent |-> ~ \E r \in users : r.username = u ]]
  /\ UNCHANGED <<users, tokens, config, seq, now, last, issued, revoked, registered,
                 schema>>

\* the INSERT of createUser runs, and the call returns or throws
StmtInsertUser(p) ==
  /\ proc[p].pc = "createUser:insert"
  /\ LET r == createUserInsert(proc[p].username, proc[p].passwordHash)
     IN  /\ users' = r.users
         /\ seq' = r.seq
         /\ proc' = [proc EXCEPT ![p] =
                       [ pc |-> "done", op |-> "createUser",
                         username |-> proc[p].username,
                         absent |-> proc[p].absent, ret |-> r.ret ]]
  /\ UNCHANGED <<tokens, config, now, last, issued, revoked, registered,
                 schema>>

NextConc == \E p \in Procs : CallCreateUser(p) \/ StmtInsertUser(p)

SpecConc == Init /\ [][NextConc]_vars

-----------------------------------------------------------------------------
(* Several clients of the ConfigManager, one SQL statement at a time *)

\* this client has had a set call throw
HasFailed(p) == proc[p].pc # "idle" /\ proc[p].failed

\* set is entered: the environment is defaulted and the clock is read
CallSet(p) ==
  /\ proc[p].pc \in {"idle", "done"}
  /\ \E k \in ConfigKeys, v \in ConfigValues, environment \in ScopedEnvironments :
       proc' = [proc EXCEPT ![p] =
                  [ pc |-> "set:select", key |-> k, value |-> v,
                    env |-> EnvOrDefault(environment),
                    nowIso |-> toISOString(now), failed |-> HasFailed(p) ]]
  /\ UNCHANGED <<users, tokens, config, seq, now, last, issued, revoked, registered,
                 schema>>

\* the SELECT of set runs
StmtSetSelect(p) ==
  /\ proc[p].pc = "set:select"
  /\ proc' = [proc EXCEPT ![p] =
                [ pc |-> "set:write", key |-> proc[p].key,
                  value |-> proc[p].value, env |-> proc[p].env,
                  nowIso |-> proc[p].nowIso,
                  found |-> SelectConfig(proc[p].key, proc[p].env),
                  failed |-> proc[p].failed ]]
  /\ UNCHANGED <<users, tokens, config, seq, now, last, issued, revoked, registered,
                 schema>>

\* the UPDATE or the INSERT of set runs, and the call returns or throws
StmtSetWrite(p) ==
  /\ proc[p].pc = "set:write"
  /\ LET r == setWrite(proc[p].found, proc[p].key, proc[p].value, proc[p].env,
                       proc[p].nowIso)
     IN  /\ r.seq["config"] <= MaxConfigId
         /\ config' = r.config
         /\ seq' = r.seq
         /\ proc' = [proc EXCEPT ![p] =
                       [ pc |-> "done", op |-> "set", key |-> proc[p].key,
                         value |-> proc[p].value, env |-> proc[p].env,
                         found |-> proc[p].found, ret |-> r.ret,
                         failed |-> proc[p].failed \/ r.ret.kind = "error" ]]
  /\ UNCHANGED <<users, tokens, now, last, issued, revoked, registered,
                 schema>>

\* delete is entered
CallDelete(p) ==
  /\ proc[p].pc \in {"idle", "done"}
  /\ \E k \in ConfigKeys, environment \in ScopedEnvironments :
       proc' = [proc EXCEPT ![p] =
                  [ pc |-> "delete:delete", key |-> k,
                    env |-> EnvOrDefault(environment), failed |-> HasFailed(p) ]]
  /\ UNCHANGED <<users, tokens, config, seq, now, last, issued, revoked, registered,
                 schema>>

\* the DELETE of delete runs, and the call returns
StmtDelete(p) ==
  /\ proc[p].pc = "delete:delete"
  /\ LET r == delete(proc[p].key, proc[p].env)
     IN  /\ config' = r.config
         /\ proc' = [proc EXCEPT ![p] =
                       [ pc |-> "done", op |-> "delete", key |-> proc[p].key,
                         env |-> proc[p].env, ret |-> r.ret,
                         failed |-> proc[p].failed ]]
  /\ UNCHANGED <<users, tokens, seq, now, last, issued, revoked, registered,
                 schema>>

NextConfigConc ==
  \E p \in Procs :
    \/ CallSet(p)
    \/ StmtSetSelect(p)
    \/ StmtSetWrite(p)
    \/ CallDelete(p)
    \/ StmtDelete(p)

SpecConfigConc == Init /\ [][NextConfigConc]_vars

-----------------------------------------------------------------------------
(* One client of the HTTP API *)

\* what a request may carry: "" and <<>> are a field left out or empty,
\* <<112, 119>> is the password "pw", "qa" is an environment that the type
\* Environment does not list
Bearers == {NoBearer} \cup BearerStrings
ApiUsernames == {"alice", ""}
ApiPasswords == Passwords \cup { <<112, 119>>, <<>> }
ApiKeys == ConfigKeys \cup { <<>> }
ApiValues == ConfigValues \cup {undefined}
ApiEnvironments == Environments \cup {""}
ArbitraryEnvironments == {"staging", "qa"}

ApiRegister ==
  \E u \in ApiUsernames, p \in ApiPasswords :
    LET r == postRegister(u, p)
    IN  /\ users' = r.users
        /\ seq' = r.seq
        /\ last' = [ op |-> "POST /auth/register",
                     args |-> [username |-> u, password |-> p],
                     ret |-> r.response ]
        /\ registered' =
             IF r.response.status = 200
             THEN registered \cup
                    { [username |-> u, password |-> p, id |-> r.response.body.id] }
             ELSE registered
        /\ UNCHANGED <<tokens, config, now, issued, revoked, proc,
                 schema>>

ApiLogin ==
  \E u \in ApiUsernames, p \in ApiPasswords :
    \E tok \in (IF u = "" \/ p = <<>> \/ verifyCredentials(u, p).kind = "null"
                THEN {0} ELSE generateToken) :
      LET r == postLogin(u, p, tok)
      IN  /\ tokens' = r.tokens
          /\ seq' = r.seq
          /\ last' = [ op |-> "POST /auth/login",
                       args |-> [username |-> u, password |-> p],
                       ret |-> r.response ]
          /\ issued' = IF r.response.status = 200
                       THEN issued \cup
                              { [token |-> r.response.body.token, username |-> u] }
                       ELSE issued
          /\ UNCHANGED <<users, config, now, revoked, registered, proc,
                 schema>>

ApiLogout ==
  \E b \in Bearers :
    LET r == postLogout(b)
    IN  /\ tokens' = r.tokens
        /\ revoked' = IF b \in { i.token : i \in issued }
                      THEN revoked \cup {b} ELSE revoked
        /\ last' = [ op |-> "POST /auth/logout", args |-> [bearer |-> b],
                     ret |-> r.response ]
        /\ UNCHANGED <<users, config, seq, now, issued, registered, proc,
                 schema>>

ApiPostConfigIn(E) ==
  \E b \in Bearers, k \in ApiKeys, v \in ApiValues, env \in E :
    LET r == postConfig(b, k, v, env)
    IN  /\ r.seq["config"] <= MaxConfigId
        /\ config' = r.config
        /\ seq' = r.seq
        /\ last' = [ op |-> "POST /config",
                     args |-> [ bearer |-> b, key |-> k, value |-> v,
                                environment |-> env ],
                     ret |-> r.response ]
        /\ UNCHANGED <<users, tokens, now, issued, revoked, registered, proc,
                 schema>>

ApiPostConfig == ApiPostConfigIn(ApiEnvironments)

ApiPutConfigIn(E) ==
  \E b \in Bearers, k \in ConfigKeys, v \in ApiValues, env \in E :
    LET r == putConfig(b, k, v, env)
    IN  /\ r.seq["config"] <= MaxConfigId
        /\ config' = r.config
        /\ seq' = r.seq
        /\ last' = [ op |-> "PUT /config/:key",
                     args |-> [ bearer |-> b, key |-> k, value |-> v,
                                environment |-> env ],
                     ret |-> r.response ]
        /\ UNCHANGED <<users, tokens, now, issued, revoked, registered, proc,
                 schema>>

ApiPutConfig == ApiPutConfigIn(ApiEnvironments)

ApiDeleteConfig ==
  \E b \in Bearers, k \in ConfigKeys, env \in ApiEnvironments :
    LET r == deleteConfig(b, k, env)
    IN  /\ config' = r.config
        /\ last' = [ op |-> "DELETE /config/:key",
                     args |-> [bearer |-> b, key |-> k, environment |-> env],
                     ret |-> r.response ]
        /\ UNCHANGED <<users, tokens, seq, now, issued, revoked, registered, proc,
                 schema>>

\* the requests of one session, short enough for the clock to stand still
NextApi ==
  \/ ApiRegister
  \/ ApiLogin
  \/ ApiLogout
  \/ ApiPostConfig
  \/ ApiPutConfig
  \/ ApiDeleteConfig

SpecApi == Init /\ [][NextApi]_vars

\* a session whose writes carry whatever environment the client chooses
NextApiEnvironment ==
  \/ ApiRegister
  \/ ApiLogin
  \/ ApiPostConfigIn(ArbitraryEnvironments)
  \/ ApiPutConfigIn(ArbitraryEnvironments)

SpecApiEnvironment == Init /\ [][NextApiEnvironment]_vars

-----------------------------------------------------------------------------
(* Claims *)

IssuedTokens == { i.token : i \in issued }

\* the instant a stored ISO-8601 expires_at denotes (Date.parse), in ticks
ParseInstant(iso) ==
  ((iso[1] - 48) * 10 + (iso[2] - 48)) * TicksPerDay
    + ((iso[4] - 48) * 10 + (iso[5] - 48))

\* the tokens row holding token string s, as a set
RowsOf(s) == { r \in tokens : r.token = s }

\* token s is past its expiry instant: the instant is at or before now
Expired(s) == \E r \in RowsOf(s) : ParseInstant(r.expires_at) <= now

\* C1: once revokeToken(T) has completed for a token T that authenticate
\* returned, validateToken(T) returns null in every later state, whatever
\* calls follow.
C1_RevokedNeverValid ==
  \A t \in revoked : validateToken(t).kind = "null"

\* a revoked token is presented again after its user has authenticated anew
C1_Witness ==
  /\ last.op = "validateToken"
  /\ last.args.token \in revoked
  /\ \E i \in issued, j \in issued :
       /\ i.token = last.args.token
       /\ j.username = i.username
       /\ j.token \notin revoked

\* C2: for a token returned by authenticate(u, p) that is neither revoked nor
\* expired, validateToken returns the users row of u: its id is the id
\* createUser returned for u, the other fields are those of that row.
C2_ValidateReturnsUser ==
  \A i \in issued :
    (i.token \notin revoked /\ ~ Expired(i.token)) =>
      LET v == validateToken(i.token)
      IN  /\ v.kind = "user"
          /\ v.user \in users
          /\ v.user.username = i.username
          /\ \E g \in registered :
               g.username = i.username /\ g.id = v.user.id

\* a valid token whose tokens row differs from its users row in id and in
\* created_at has been validated
C2_Witness ==
  /\ last.op = "validateToken"
  /\ last.ret.kind = "user"
  /\ \E r \in RowsOf(last.args.token) :
       /\ r.id # r.user_id
       /\ r.created_at # last.ret.user.created_at
       /\ ~ Expired(r.token)

\* C3: validateToken returns null for every token whose expiry instant is at
\* or before the store's current time.
C3_ExpiredIsNull ==
  \A r \in tokens :
    ParseInstant(r.expires_at) <= now => validateToken(r.token).kind = "null"

\* the password username u was created with, as a set (empty: no such user)
PasswordOf(u) == { g.password : g \in { g \in registered : g.username = u } }

\* C4: after a successful createUser(u, p), and whatever calls came in
\* between, authenticate(u, p) returns a token and inserts exactly one tokens
\* row, for u's user id.
C4_AuthenticateAfterCreate ==
  [][ ( /\ last'.op = "authenticate"
        /\ last'.args.password \in PasswordOf(last'.args.username) )
      => /\ last'.ret.kind = "token"
         /\ \E row \in tokens' :
              /\ row \notin tokens
              /\ tokens' = tokens \cup {row}
              /\ row.token = last'.ret.token
              /\ \E g \in registered :
                   g.username = last'.args.username /\ g.id = row.user_id
    ]_vars

\* a user created earlier authenticates with success for the second time,
\* at a later time than the creation
C4_Witness ==
  /\ last.op = "authenticate"
  /\ last.ret.kind = "token"
  /\ Cardinality({ i \in issued : i.username = last.args.username }) >= 2
  /\ \E r \in users : r.username = last.args.username /\ r.created_at # datetime(now)

\* C5: authenticate(u, p) returns null when no user named u exists and when u
\* exists but p is not the password u was created with; in both cases nothing
\* is raised and the store is left unchanged.
C5_BadCredentialsNull ==
  [][ ( /\ last'.op = "authenticate"
        /\ last'.args.password \notin PasswordOf(last'.args.username) )
      => /\ last'.ret = Null
         /\ UNCHANGED store
    ]_vars

\* an existing user has presented a wrong password
C5_Witness ==
  /\ last.op = "authenticate"
  /\ last.ret.kind = "null"
  /\ PasswordOf(last.args.username) # {}
  /\ last.args.password \notin PasswordOf(last.args.username)
  /\ tokens # {}

\* C6: every successful authenticate call returns a token string that no
\* earlier successful authenticate call returned, for the same user or another.
C6_TokensDistinct ==
  [][ (last'.op = "authenticate" /\ last'.ret.kind = "token")
      => last'.ret.token \notin IssuedTokens
    ]_vars

\* the same user has authenticated twice with success
C6_Witness ==
  /\ last.op = "authenticate"
  /\ last.ret.kind = "token"
  /\ \E i \in issued :
       i.username = last.args.username /\ i.token # last.ret.token

\* C7: createUser(u, p2) for an existing username u fails with "Username
\* already exists" and leaves the store unchanged: the original password
\* still verifies, for the same id, and p2 (when different) does not.
C7_DuplicateUsername ==
  [][ ( /\ last'.op = "createUser"
        /\ \E r \in users : r.username = last'.args.username )
      => /\ last'.ret = ErrorResult("Username already exists")
         /\ UNCHANGED store
         /\ \A g \in registered :
              g.username = last'.args.username =>
                /\ verifyCredentials(g.username, g.password).kind = "user"
                /\ verifyCredentials(g.username, g.password).user.id = g.id
                /\ \A p2 \in Passwords \ {g.password} :
                     verifyCredentials(g.username, p2).kind = "null"
    ]_vars

\* a second createUser for an existing username, with another password, failed
C7_Witness ==
  /\ last.op = "createUser"
  /\ last.ret.kind = "error"
  /\ PasswordOf(last.args.username) # {}
  /\ last.args.password \notin PasswordOf(last.args.username)

\* C8: of two createUser calls for the same username that run concurrently
\* (the username being free when each began), exactly one returns a user id
\* and the other fails with "Username already exists"; in no reachable state
\* do two users rows share a username.
C8_ConcurrentCreateUser ==
  /\ \A r1 \in users, r2 \in users : r1.username = r2.username => r1 = r2
  /\ \A p \in Procs : \A q \in Procs \ {p} :
       ( /\ proc[p].pc = "done" /\ proc[q].pc = "done"
         /\ proc[p].op = "createUser" /\ proc[q].op = "createUser"
         /\ proc[p].username = proc[q].username
         /\ proc[p].absent /\ proc[q].absent )
       => \/ /\ proc[p].ret.kind = "id"
             /\ proc[q].ret = ErrorResult("Username already exists")
          \/ /\ proc[q].ret.kind = "id"
             /\ proc[p].ret = ErrorResult("Username already exists")

\* two calls for one free username have both run their INSERT
C8_Witness ==
  /\ proc["p1"].pc = "done" /\ proc["p2"].pc = "done"
  /\ proc["p1"].username = proc["p2"].username
  /\ proc["p1"].absent /\ proc["p2"].absent
  /\ proc["p1"].ret.kind = "error"
  /\ proc["p2"].ret.kind = "id"

\* C9: validateToken returns null for every string that authenticate never
\* returned, in every reachable state.
C9_UnissuedIsNull ==
  \A s \in BearerStrings :
    s \notin IssuedTokens => validateToken(s).kind = "null"

\* a string never issued is presented while a valid token exists
C9_Witness ==
  /\ last.op = "validateToken"
  /\ last.args.token \notin IssuedTokens
  /\ last.ret.kind = "null"
  /\ \E r \in tokens : validateToken(r.token).kind = "user"

\* C10: validateToken never changes the store: users, tokens (every
\* expires_at included) and config are the same before and after the call,
\* whether it returns a user or null.
C10_ValidateTokenReadOnly ==
  [][ last'.op = "validateToken" => UNCHANGED <<users, tokens, config, seq>> ]_vars

\* a valid token is validated after the time of its issue, the config table
\* holding a row
C10_Witness ==
  /\ last.op = "validateToken"
  /\ last.ret.kind = "user"
  /\ config # {}
  /\ \E r \in RowsOf(last.args.token) : r.created_at # datetime(now)

\* C11: revokeToken never fails and is idempotent: called for a token string
\* that has no tokens row (never issued, or already revoked) it returns
\* normally and leaves the store unchanged, and after any call no row for the
\* string is left, so that a second call leaves the state of the first.
C11_RevokeIdempotent ==
  [][ last'.op = "revokeToken"
      => /\ last'.ret.kind = "void"
         /\ RowsOf(last'.args.token) = {} => UNCHANGED store
         /\ { r \in tokens' : r.token # last'.args.token } = tokens' ]_vars

\* a string that was never issued is revoked while another token is held and
\* a third one has been revoked before
C11_Witness ==
  /\ last.op = "revokeToken"
  /\ last.args.token \notin IssuedTokens
  /\ tokens # {}
  /\ revoked # {}

\* C12: in every reachable state the password_hash of each users row is the
\* digest of the password createUser was given for that row, never that
\* password itself, and authenticate, which hashes with the same function,
\* accepts that password for that row.
C12_StoredHashIsDigest ==
  \A r \in users :
    \E g \in registered :
      /\ g.id = r.id
      /\ g.username = r.username
      /\ r.password_hash = hashPassword(g.password)
      /\ r.password_hash # g.password
      /\ verifyCredentials(g.username, g.password).kind = "user"

\* two users created with different passwords are stored
C12_Witness ==
  \E r1 \in users, r2 \in users : r1.password_hash # r2.password_hash

\* the three routes that write the configuration
ConfigWriteRoutes == {"POST /config", "PUT /config/:key", "DELETE /config/:key"}

\* C13: through the HTTP API, a request to POST /config, PUT /config/:key or
\* DELETE /config/:key changes the config table only when it carries a bearer
\* token for which validateToken returns a user at that moment; a request
\* with no token, with a string that is no token, or with a token revoked by
\* POST /auth/logout is answered 401 and leaves the configuration unchanged.
C13_ConfigWritesNeedAuth ==
  [][ last'.op \in ConfigWriteRoutes
      => LET b == last'.args.bearer
             authorised == b # NoBearer /\ validateToken(b).kind = "user"
         IN  /\ ~ authorised => (last'.ret.status = 401 /\ UNCHANGED <<config, seq>>)
             /\ (b = NoBearer \/ b \notin IssuedTokens \/ b \in revoked)
                  => ~ authorised ]_vars

\* a token that wrote a configuration entry and was then revoked by a logout
\* is refused on a later write
C13_Witness ==
  /\ last.op \in ConfigWriteRoutes
  /\ last.args.bearer \in revoked
  /\ last.ret.status = 401
  /\ config # {}

\* C14: set(k, v1, e) followed by set(k, v2, e), no delete of (k, e) in
\* between, leaves exactly one row for (k, e): its value is v2, its id and
\* created_at are those the first call left, its updated_at is not earlier
\* than the first call's, and the entry the second call returns is that row.
C14_SetTwice ==
  [][ ( /\ last'.op = "set"
        /\ SelectConfig(last'.args.key, EnvOrDefault(last'.args.environment)) # {} )
      => LET k == last'.args.key
             e == EnvOrDefault(last'.args.environment)
             before == CHOOSE r \in SelectConfig(k, e) : TRUE
             after == { r \in config' : r.key = k /\ r.environment = e }
         IN  /\ Cardinality(after) = 1
             /\ \A r \in after :
                  /\ r.value = last'.args.value
                  /\ r.id = before.id
                  /\ r.created_at = before.created_at
                  /\ ParseInstant(r.updated_at) >= ParseInstant(before.updated_at)
                  /\ last'.ret.kind = "entry"
                  /\ last'.ret.entry = r ]_vars

\* a second set has given the row a new value at a later time than the first
C14_Witness ==
  /\ last.op = "set"
  /\ \E r \in config :
       /\ r = last.ret.entry
       /\ r.value = "off"
       /\ ParseInstant(r.updated_at) > ParseInstant(r.created_at)

\* C15: the config table holds at most one row per (key, environment), in
\* every state that set and delete calls can reach, their statements
\* interleaved in any way.
C15_OneRowPerKeyEnvironment ==
  \A r1 \in config, r2 \in config :
    (r1.key = r2.key /\ r1.environment = r2.environment) => r1 = r2

\* two set calls for one (key, environment) both found no row and both ran
\* their INSERT, and a row of the other environment is stored too
C15_Witness ==
  /\ \E p \in Procs : \E q \in Procs \ {p} :
       /\ proc[p].pc = "done" /\ proc[p].op = "set" /\ proc[p].found = {}
       /\ proc[q].pc = "done" /\ proc[q].op = "set" /\ proc[q].found = {}
       /\ proc[p].key = proc[q].key /\ proc[p].env = proc[q].env
       /\ proc[p].ret.kind = "entry"
       /\ proc[q].ret.kind = "error"
  /\ Cardinality(config) = 2

\* C16: set reads, then writes, and other statements may run in between.
\* Its INSERT fails on UNIQUE(key, environment), leaving the store as it was,
\* exactly when its SELECT found no row and a row for the pair has appeared
\* since; its UPDATE overwrites the row it selected whatever was written to
\* that row since, and the call returns its own value. Both races happen:
\* the witness is an execution that has seen each.
C16_SetReadThenWrite ==
  [][ \A p \in Procs :
        (proc[p].pc = "set:write" /\ proc'[p].pc = "done") =>
          LET call == proc[p]
              ret == proc'[p].ret
              current == SelectConfig(call.key, call.env)
              raced == call.found = {} /\ current # {}
          IN  /\ raced => /\ ret.kind = "error"
                          /\ ret.message =
                               "UNIQUE constraint failed: config.key, config.environment"
                          /\ UNCHANGED <<config, seq>>
              /\ ret.kind = "error" => raced
              /\ call.found # {} =>
                   /\ ret.kind = "entry"
                   /\ ret.entry.value = call.value
                   /\ \A r \in config' :
                        (\E f \in call.found : f.id = r.id) => r.value = call.value
        ]_vars

\* two overlapping set calls selected the same row and both returned their
\* entry, with different values of which the store holds one; before that,
\* a set call of one of the two clients failed on the UNIQUE constraint
C16_Witness ==
  \E p \in Procs : \E q \in Procs \ {p} :
    /\ proc[p].pc = "done" /\ proc[p].op = "set" /\ proc[p].ret.kind = "entry"
    /\ proc[q].pc = "done" /\ proc[q].op = "set" /\ proc[q].ret.kind = "entry"
    /\ proc[p].found # {} /\ proc[p].found = proc[q].found
    /\ proc[p].ret.entry.value # proc[q].ret.entry.value
    /\ \E r \in config : r.id = proc[p].ret.entry.id /\ r.value = proc[q].value
    /\ HasFailed(p) \/ HasFailed(q)

\* the rows of environment e
RowsIn(e) == { r \in config : r.environment = e }

\* C17: set(k, v, e1) and delete(k, e1) leave the rows of every other
\* environment, and what get and exists answer for them, as they were; after
\* set(k, v, e1) with a row for (k, e2) stored, e2 # e1, the two rows coexist
\* and get returns each environment's own value.
C17_EnvironmentScoping ==
  [][ last'.op \in {"set", "delete"}
      => \A e1 \in ScopedEnvironments, e2 \in ScopedEnvironments, k \in SearchKeys :
           (e1 = EnvOrDefault(last'.args.environment) /\ e2 # e1) =>
             /\ { r \in config' : r.environment = e2 } = RowsIn(e2)
             /\ get(k, e2)' = get(k, e2)
             /\ exists(k, e2)' = exists(k, e2)
             /\ (last'.op = "set" /\ k = last'.args.key /\ exists(k, e2).value)
                  => /\ get(k, e1)' = [ kind |-> "string",
                                        value |-> last'.args.value ]
                     /\ Cardinality({ r \in config' : r.key = k }) = 2 ]_vars

\* one key holds different values in development and in production, the
\* development one set last
C17_Witness ==
  /\ last.op = "set"
  /\ last.args.environment = "development"
  /\ get(last.args.key, "production").kind = "string"
  /\ get(last.args.key, "production").value # last.args.value
  /\ get(last.args.key, "development").value = last.args.value

\* the entries of a result, as a set
Elements(entries) == { entries[i] : i \in 1 .. Len(entries) }

\* a result lists each of its entries once, keys ascending
AscendingByKey(entries) ==
  \A i \in 1 .. Len(entries), j \in 1 .. Len(entries) :
    i < j => TextGreater(entries[j].key, entries[i].key)

\* text p occurs in text k, character for character
Contains(k, p) ==
  \E i \in 0 .. (Len(k) - Len(p)) : \A j \in 1 .. Len(p) : k[i + j] = p[j]

\* two characters that are equal, or the two cases of one ASCII letter
SameLetter(a, b) ==
  \/ a = b
  \/ a \in 65 .. 90 /\ b = a + 32
  \/ b \in 65 .. 90 /\ a = b + 32

\* text t is an instance of pattern p: t splits into one piece per character
\* of p, any run for %, any one character for _, else one character that is
\* the same letter
InstanceOf(t, p) ==
  \E cut \in [0 .. Len(p) -> 0 .. Len(t)] :
    /\ cut[0] = 0
    /\ cut[Len(p)] = Len(t)
    /\ \A i \in 1 .. Len(p) :
         IF p[i] = 37 THEN cut[i] >= cut[i - 1]
         ELSE /\ cut[i] = cut[i - 1] + 1
              /\ p[i] = 95 \/ SameLetter(p[i], t[cut[i]])

\* some stretch of text k is an instance of pattern p
ContainsInstance(k, p) ==
  \E i \in 0 .. Len(k), j \in 0 .. Len(k) :
    i <= j /\ InstanceOf(SubSeq(k, i + 1, j), p)

\* C18, as claimed: getByPattern(p, e) returns exactly the entries of
\* environment e whose key contains p as a substring, keys ascending, for
\* every pattern p and every store content.
C18_GetByPatternSubstring ==
  \A p \in Patterns, e \in ScopedEnvironments :
    LET entries == getByPattern(p, e)
    IN  /\ Elements(entries) = { r \in RowsIn(e) : Contains(r.key, p) }
        /\ AscendingByKey(entries)

\* C18, amended: getByPattern(p, e) returns exactly the entries of
\* environment e whose key contains an instance of p read as a LIKE pattern
\* (% any run of characters, _ any one character, ASCII letters whatever
\* their case), each once, keys ascending in the order of their bytes.
C18_GetByPatternLike ==
  \A p \in Patterns, e \in ScopedEnvironments :
    LET entries == getByPattern(p, e)
    IN  /\ Elements(entries) = { r \in RowsIn(e) : ContainsInstance(r.key, p) }
        /\ Len(entries) = Cardinality(Elements(entries))
        /\ AscendingByKey(entries)

\* a search returned two entries, the later inserted one first, one of them
\* matching only by the case of a letter, and left out a row of the other
\* environment
C18_Witness ==
  /\ last.op = "getByPattern"
  /\ Len(last.ret.entries) = 2
  /\ last.ret.entries[1].id > last.ret.entries[2].id
  /\ ~ Contains(last.ret.entries[1].key, last.args.pattern)
  /\ \E r \in config : r.environment # EnvOrDefault(last.args.environment)

\* C19: delete(k, e) returns true exactly when a row for (k, e) was stored;
\* that row, and no other, is then removed, after which exists(k, e) is
\* false and get(k, e) is null. When no row was stored it returns false and
\* leaves the store unchanged.
C19_DeleteResult ==
  [][ last'.op = "delete"
      => \A k \in SearchKeys, e \in ScopedEnvironments :
           (k = last'.args.key /\ e = EnvOrDefault(last'.args.environment)) =>
             /\ last'.ret.kind = "bool"
             /\ last'.ret.value = (SelectConfig(k, e) # {})
             /\ config' = config \ SelectConfig(k, e)
             /\ UNCHANGED <<users, tokens, seq>>
             /\ ~ exists(k, e)'.value
             /\ get(k, e)'.kind = "null"
             /\ SelectConfig(k, e) = {} => UNCHANGED store ]_vars

\* a stored row has been deleted while the same key stays stored in the
\* other environment
C19_Witness ==
  /\ last.op = "delete"
  /\ last.ret.value
  /\ \E r \in config : r.key = last.args.key

\* C20: getAll(e) returns every config row of environment e and no row of
\* another environment, each once, keys ascending, and changes nothing in the
\* store.
C20_GetAll ==
  [][ last'.op = "getAll"
      => LET entries == last'.ret.entries
         IN  /\ Elements(entries) = RowsIn(EnvOrDefault(last'.args.environment))
             /\ Len(entries) = Cardinality(Elements(entries))
             /\ AscendingByKey(entries)
             /\ UNCHANGED store ]_vars

\* getAll returned two entries, the later inserted one first, and left out a
\* row of the other environment
C20_Witness ==
  /\ last.op = "getAll"
  /\ Len(last.ret.entries) = 2
  /\ last.ret.entries[1].id > last.ret.entries[2].id
  /\ \E r \in config : r.environment # EnvOrDefault(last.args.environment)

\* C21: with the environment argument left out, set, get, getAll, delete,
\* exists and getByPattern do what they do when called with the manager's
\* default environment, production; set(k, v) leaves a single row for
\* (k, production), holding v, which is what get(k, production) then selects.
C21_DefaultEnvironment ==
  /\ \A k \in SearchKeys :
       /\ get(k, "") = get(k, "production")
       /\ exists(k, "") = exists(k, "production")
       /\ delete(k, "") = delete(k, "production")
       /\ \A v \in SearchValues :
            /\ set(k, v, "") = set(k, v, "production")
            /\ { r.value : r \in { r \in set(k, v, "").config :
                                     r.key = k /\ r.environment = "production" } }
                 = {v}
  /\ getAll("") = getAll("production")
  /\ \A p \in Patterns : getByPattern(p, "") = getByPattern(p, "production")

\* set is called without an environment for a key that holds another value
\* in development
C21_Witness ==
  /\ last.op = "set"
  /\ last.args.environment = ""
  /\ get(last.args.key, "development").kind = "string"
  /\ get(last.args.key, "development").value # last.args.value
  /\ last.ret.entry.environment = "production"

\* C22: authenticate for a username that does not exist executes what
\* authenticate for an existing username with a wrong password executes, so
\* that the two cannot be told apart by their duration; and the work of
\* comparing the stored hash with the provided one does not depend on the
\* bytes of the two hashes.
C22_AuthenticateTimingUniform ==
  /\ \A u1 \in Usernames, u2 \in Usernames, p1 \in Passwords, p2 \in Passwords :
       ( /\ PasswordOf(u1) = {}
         /\ PasswordOf(u2) # {}
         /\ p2 \notin PasswordOf(u2) )
       => authenticateWork(u1, p1) = authenticateWork(u2, p2)
  /\ \A r \in users, p1 \in Passwords, p2 \in Passwords :
       timingSafeEqualWork(BufferFromHex(r.password_hash),
                           BufferFromHex(hashPassword(p1)))
         = timingSafeEqualWork(BufferFromHex(r.password_hash),
                               BufferFromHex(hashPassword(p2)))

\* C23: revocation is per token. revokeToken(T1) removes the row of T1 and
\* no other row, leaves users and config unchanged, and in the state it
\* leaves every unrevoked, unexpired token, of the same user or of another
\* user, is accepted by validateToken.
C23_RevokeOnlyThatToken ==
  [][ /\ last'.op = "revokeToken"
           => /\ tokens' = tokens \ RowsOf(last'.args.token)
              /\ UNCHANGED <<users, config, seq, now>>
      /\ last.op = "revokeToken"
           => \A t2 \in IssuedTokens \ revoked :
                ~ Expired(t2) => validateToken(t2).kind = "user" ]_vars

\* one of two tokens a user holds has just been revoked, and the other one
\* is still accepted
C23_Witness ==
  /\ last.op = "revokeToken"
  /\ \E i \in issued, j \in issued :
       /\ i.token = last.args.token
       /\ RowsOf(i.token) = {}
       /\ j.username = i.username
       /\ j.token # i.token
       /\ validateToken(j.token).kind = "user"

\* C24: in every reachable state exists(k, e) is true exactly when get(k, e)
\* is not null; an entry stored with the empty string as its value is
\* present: get returns "" and exists returns true.
C24_ExistsIffGetNonNull ==
  /\ \A k \in SearchKeys, e \in EnvironmentArgs :
       exists(k, e).value <=> get(k, e).kind # "null"
  /\ \A r \in config :
       r.value = "" =>
         /\ get(r.key, r.environment) = [kind |-> "string", value |-> ""]
         /\ exists(r.key, r.environment).value

\* get has returned the empty string for a key that is absent from the other
\* environment
C24_Witness ==
  /\ last.op = "get"
  /\ last.ret.kind = "string"
  /\ last.ret.value = ""
  /\ \E e \in ScopedEnvironments : ~ exists(last.args.key, e).value

\* C25: POST /auth/register with the username missing, the password missing
\* or a password of fewer than 8 characters is answered with an error and
\* creates no users row; a request that passes these checks gets what
\* createUser does with it.
C25_RegisterValidation ==
  [][ last'.op = "POST /auth/register"
      => LET u == last'.args.username
             p == last'.args.password
         IN  IF u = "" \/ p = <<>> \/ Len(p) < 8
             THEN /\ last'.ret.status = 400
                  /\ "error" \in DOMAIN last'.ret.body
                  /\ UNCHANGED <<users, seq>>
             ELSE \E pw \in Passwords :
                    /\ pw = p
                    /\ users' = createUser(u, pw).users
                    /\ seq' = createUser(u, pw).seq ]_vars

\* a registration with a password of two characters has been refused
C25_Witness ==
  /\ last.op = "POST /auth/register"
  /\ last.args.username # ""
  /\ Len(last.args.password) \in 1 .. 7
  /\ last.ret.status = 400
  /\ users = {}

\* C26: the migration is idempotent. Run on a store that has the schema, by
\* a second DatabaseManager constructed over it, it raises no error and
\* leaves the tables, the indexes and every users, tokens and config row as
\* they were; run twice on any store it leaves what one run leaves.
C26_MigrateIdempotent ==
  [][ last'.op = "migrate"
      => /\ last'.ret.kind = "void"
         /\ UNCHANGED <<schema, users, tokens, config, seq>>
         /\ migrate(migrate(Database)) = migrate(Database)
         /\ migrate(migrate(EmptyDatabase)) = migrate(EmptyDatabase)
         /\ { o.name : o \in schema } =
              { statements[i].name : i \in 1 .. Len(statements) } ]_vars

\* the migration has run again on a store that holds a user, a token of
\* theirs and a configuration entry
C26_Witness ==
  /\ last.op = "migrate"
  /\ users # {}
  /\ tokens # {}
  /\ config # {}

C28_UsersAppendOnly ==
  [][ /\ \A r \in users :
           /\ r \in users'
           /\ { x \in users' : x.id = r.id } = {r}
           /\ getUserById(r.id) = UserResult(r)
      /\ \A g \in registered :
           \E r \in users : r.id = g.id /\ r.username = g.username ]_vars

\* a second createUser for the stored username has failed, after the user
\* logged in, the configuration was written and time passed
C28_Witness ==
  /\ last.op = "createUser"
  /\ last.ret.kind = "error"
  /\ users # {}
  /\ tokens # {}
  /\ config # {}
  /\ now > 0

\* C29: in every reachable state the user_id of each tokens row is the id of
\* a users row, and a tokens row stays as authenticate inserted it (user_id,
\* token, expires_at and the rest) until revokeToken of its token deletes it.
C29_TokenRowsStable ==
  [][ /\ \A r \in tokens : \E u \in users : u.id = r.user_id
      /\ \A r \in tokens' : \E u \in users' : u.id = r.user_id
      /\ \A r \in tokens :
           \/ r \in tokens' /\ { x \in tokens' : x.id = r.id } = {r}
           \/ /\ ~ \E x \in tokens' : x.id = r.id
              /\ last'.op = "revokeToken"
              /\ last'.args.token = r.token
      /\ \A r \in tokens' \ tokens : last'.op = "authenticate" ]_vars

\* a token is still stored, as it was issued, after time has passed and
\* another token has been revoked
C29_Witness ==
  \E r \in tokens :
    /\ now > ParseInstant(r.created_at)
    /\ \E t \in revoked : t # r.token
    /\ r.id # r.user_id

\* C30: every row of the config table has its environment in development,
\* staging, production, after any sequence of authenticated API requests,
\* those POST /config and PUT /config/:key requests included whose body
\* carries an arbitrary environment value.
C30_EnvironmentInEnum ==
  \A r \in config : r.environment \in Environment

\* C31: whenever a set(k, v, e) call returns an entry, the store holds at
\* that moment a row for (k, e) with the id and the value of the returned
\* entry, and get(k, e) at that moment returns v; the statements of other
\* clients' set and delete calls may run between the SELECT and the UPDATE
\* or INSERT of the call.
C31_SetReturnsStoredRow ==
  [][ \A p \in Procs, k \in ConfigKeys, e \in ScopedEnvironments :
        ( /\ proc[p].pc = "set:write"
          /\ proc'[p].pc = "done"
          /\ proc'[p].ret.kind = "entry"
          /\ k = proc[p].key
          /\ e = proc[p].env ) =>
          /\ \E r \in config' :
               /\ r.key = k
               /\ r.environment = e
               /\ r.id = proc'[p].ret.entry.id
               /\ r.value = proc'[p].ret.entry.value
          /\ get(k, e)' = [kind |-> "string", value |-> proc[p].value]
    ]_vars

====
